---- MODULE Spec2Model ----
(***************************************************************************)
(* Model of the in-memory forest of labelled nodes (src/tree.rs,           *)
(* src/node.rs) and of the TreeStore that guards it with an RwLock         *)
(* (src/tree_store.rs).                                                    *)
(*                                                                         *)
(* A node (Arc<Mutex<Node>>) is a reference into `nodes`; `lookup` maps an *)
(* id to a reference, so that "the node stored under key k has id k" is a  *)
(* property of the code and not of the encoding.                           *)
(* Option<i32> is encoded as a sequence: None = <<>>, Some(p) = <<p>>.     *)
(***************************************************************************)
EXTENDS Integers, Sequences, FiniteSets, TLC

VARIABLES
    next_id,          \* Tree.next_id
    lookup,           \* Tree.lookup: id -> node reference
    child_to_parent,  \* Tree.child_to_parent: child id -> parent id
    parent_to_child,  \* Tree.parent_to_child: parent id -> sequence of child ids
    nodes,            \* the allocated nodes: reference -> Node
    lock_writer,      \* TreeStore.lock: a write guard is alive
    lock_readers,     \* TreeStore.lock: number of read guards alive
    poisoned,         \* TreeStore.lock: the poison flag of the RwLock
    pc,               \* position of each calling thread
    ret,              \* what the last completed call gave its caller
    returned,         \* history: <<id, parent>> of every add_node that returned Ok
    snapshot,         \* a vector that get_tree returned and its caller still holds
    mutex,            \* the Mutex of each node: locked reference -> thread that holds it
    local,            \* the local variables of each thread inside a call
    calls             \* number of calls made when every step of a call is followed

treevars == <<next_id, lookup, child_to_parent, parent_to_child, nodes>>
lockvars == <<lock_writer, lock_readers, poisoned>>
\* what the callers of the store hold besides the last result
auxvars == <<snapshot, mutex, local, calls>>
vars == <<next_id, lookup, child_to_parent, parent_to_child, nodes,
          lock_writer, lock_readers, poisoned, pc, ret, returned, snapshot, mutex, local, calls>>

(* ------------------------------ bounds --------------------------------- *)
MaxNodes == 3
NumThreads == 2
\* the number of calls in the specification that follows every Mutex
MaxCalls == 4

Threads == 1..NumThreads
Labels == {"root", "child"}
\* parent ids a caller may send: negative, zero, every id that can exist and
\* one that never exists
ParentIds == (-1)..(MaxNodes + 1)
None == <<>>
Some(p) == <<p>>
ParentArgs == {None} \cup {Some(p) : p \in ParentIds}

EmptyMap == [x \in {} |-> 0]

(* ------------------------------- Node ---------------------------------- *)
Node_new(id, label) == [id |-> id, label |-> label, children |-> <<>>]

\* add_child that inserts at the front of the vector
Node_add_child_front(node, child) == [node EXCEPT !.children = <<child>> \o @]

\* add_child that replaces the vector by one that holds only the new child
Node_add_child_replace(node, child) == [node EXCEPT !.children = <<child>>]

Node_add_child(node, child) == [node EXCEPT !.children = Append(@, child)]

Node_len(node) == Len(node.children)

(* ------------------------------- Tree ---------------------------------- *)
Tree_default ==
    [next_id |-> 1, lookup |-> EmptyMap, child_to_parent |-> EmptyMap,
     parent_to_child |-> EmptyMap, nodes |-> EmptyMap]

\* the Tree the variables hold
TreeNow ==
    [next_id |-> next_id, lookup |-> lookup, child_to_parent |-> child_to_parent,
     parent_to_child |-> parent_to_child, nodes |-> nodes]

\* HashMap::insert
MapInsert(m, k, v) == (k :> v) @@ m

\* parent_to_child.insert(parent_id, vec![child_id]): the earlier children of
\* the parent are lost
EntryPush_overwrite(m, k, v) == (k :> <<v>>) @@ m

\* parent_to_child.entry(parent_id).or_insert(vec![]).push(child_id)
EntryPush(m, k, v) ==
    IF k \in DOMAIN m THEN [m EXCEPT ![k] = Append(@, v)] ELSE (k :> <<v>>) @@ m

\* Arc::new: a reference that is not in use
FreshRef(T) == CHOOSE r \in 1..(Cardinality(DOMAIN T.nodes) + 1) : r \notin DOMAIN T.nodes

\* add_edge with child_to_parent.insert moved before the check that the
\* parent exists
add_edge_insert_first(T, parent_id, child_ref) ==
    LET child == T.nodes[child_ref] IN
    IF parent_id = child.id
    THEN [kind |-> "same_node", tree |-> T]
    ELSE IF child.id \in DOMAIN T.child_to_parent
    THEN [kind |-> "already_has_parent", tree |-> T]
    ELSE IF parent_id \notin DOMAIN T.lookup
    THEN [kind |-> "does_not_exist",
          tree |-> [T EXCEPT !.child_to_parent = MapInsert(@, child.id, parent_id)]]
    ELSE LET parent_ref == T.lookup[parent_id] IN
         [kind |-> "Ok",
          tree |-> [T EXCEPT
              !.child_to_parent = MapInsert(@, child.id, parent_id),
              !.nodes = [@ EXCEPT ![parent_ref] = Node_add_child(@, child_ref)],
              !.parent_to_child = EntryPush(@, parent_id, child.id)]]

\* add_edge without the check that the child has no parent yet
add_edge_no_parent_check(T, parent_id, child_ref) ==
    LET child == T.nodes[child_ref] IN
    IF parent_id = child.id
    THEN [kind |-> "same_node", tree |-> T]
    ELSE IF parent_id \notin DOMAIN T.lookup
    THEN [kind |-> "does_not_exist", tree |-> T]
    ELSE LET parent_ref == T.lookup[parent_id] IN
         [kind |-> "Ok",
          tree |-> [T EXCEPT
              !.child_to_parent = MapInsert(@, child.id, parent_id),
              !.nodes = [@ EXCEPT ![parent_ref] = Node_add_child(@, child_ref)],
              !.parent_to_child = EntryPush(@, parent_id, child.id)]]

\* add_edge without the check that parent and child differ
add_edge_no_self_check(T, parent_id, child_ref) ==
    LET child == T.nodes[child_ref] IN
    IF child.id \in DOMAIN T.child_to_parent
    THEN [kind |-> "already_has_parent", tree |-> T]
    ELSE IF parent_id \notin DOMAIN T.lookup
    THEN [kind |-> "does_not_exist", tree |-> T]
    ELSE LET parent_ref == T.lookup[parent_id] IN
         [kind |-> "Ok",
          tree |-> [T EXCEPT
              !.child_to_parent = MapInsert(@, child.id, parent_id),
              !.nodes = [@ EXCEPT ![parent_ref] = Node_add_child(@, child_ref)],
              !.parent_to_child = EntryPush(@, parent_id, child.id)]]

\* add_edge without `self.child_to_parent.insert(child.id, parent_id)`
add_edge_no_child_to_parent(T, parent_id, child_ref) ==
    LET child == T.nodes[child_ref] IN
    IF parent_id = child.id
    THEN [kind |-> "same_node", tree |-> T]
    ELSE IF child.id \in DOMAIN T.child_to_parent
    THEN [kind |-> "already_has_parent", tree |-> T]
    ELSE IF parent_id \notin DOMAIN T.lookup
    THEN [kind |-> "does_not_exist", tree |-> T]
    ELSE LET parent_ref == T.lookup[parent_id] IN
         [kind |-> "Ok",
          tree |-> [T EXCEPT
              !.nodes = [@ EXCEPT ![parent_ref] = Node_add_child(@, child_ref)],
              !.parent_to_child = EntryPush(@, parent_id, child.id)]]

\* add_edge that records the edge of a parent that does not exist instead
\* of returning the error
add_edge_unknown_parent_ok(T, parent_id, child_ref) ==
    LET child == T.nodes[child_ref] IN
    IF parent_id = child.id
    THEN [kind |-> "same_node", tree |-> T]
    ELSE IF child.id \in DOMAIN T.child_to_parent
    THEN [kind |-> "already_has_parent", tree |-> T]
    ELSE IF parent_id \notin DOMAIN T.lookup
    THEN [kind |-> "Ok",
          tree |-> [T EXCEPT
              !.child_to_parent = MapInsert(@, child.id, parent_id),
              !.parent_to_child = EntryPush(@, parent_id, child.id)]]
    ELSE LET parent_ref == T.lookup[parent_id] IN
         [kind |-> "Ok",
          tree |-> [T EXCEPT
              !.child_to_parent = MapInsert(@, child.id, parent_id),
              !.nodes = [@ EXCEPT ![parent_ref] = Node_add_child(@, child_ref)],
              !.parent_to_child = EntryPush(@, parent_id, child.id)]]

\* add_edge with the arguments of child_to_parent.insert exchanged
add_edge_swapped_insert(T, parent_id, child_ref) ==
    LET child == T.nodes[child_ref] IN
    IF parent_id = child.id
    THEN [kind |-> "same_node", tree |-> T]
    ELSE IF child.id \in DOMAIN T.child_to_parent
    THEN [kind |-> "already_has_parent", tree |-> T]
    ELSE IF parent_id \notin DOMAIN T.lookup
    THEN [kind |-> "does_not_exist", tree |-> T]
    ELSE LET parent_ref == T.lookup[parent_id] IN
         [kind |-> "Ok",
          tree |-> [T EXCEPT
              !.child_to_parent = MapInsert(@, parent_id, child.id),
              !.nodes = [@ EXCEPT ![parent_ref] = Node_add_child(@, child_ref)],
              !.parent_to_child = EntryPush(@, parent_id, child.id)]]

\* add_edge that appends the child to a clone of the parent node and puts
\* the clone into lookup, instead of changing the node that is shared
add_edge_clones_parent(T, parent_id, child_ref) ==
    LET child == T.nodes[child_ref] IN
    IF parent_id = child.id
    THEN [kind |-> "same_node", tree |-> T]
    ELSE IF child.id \in DOMAIN T.child_to_parent
    THEN [kind |-> "already_has_parent", tree |-> T]
    ELSE IF parent_id \notin DOMAIN T.lookup
    THEN [kind |-> "does_not_exist", tree |-> T]
    ELSE LET parent_ref == T.lookup[parent_id]
             clone_ref == FreshRef(T)
         IN  [kind |-> "Ok",
              tree |-> [T EXCEPT
                  !.child_to_parent = MapInsert(@, child.id, parent_id),
                  !.nodes = (clone_ref :> Node_add_child(T.nodes[parent_ref], child_ref)) @@ @,
                  !.lookup = MapInsert(@, parent_id, clone_ref),
                  !.parent_to_child = EntryPush(@, parent_id, child.id)]]

\* Tree::add_edge. kind is "Ok" or the error message the code formats.
add_edge(T, parent_id, child_ref) ==
    LET child == T.nodes[child_ref] IN
    IF parent_id = child.id
    THEN [kind |-> "same_node", tree |-> T]
    ELSE IF child.id \in DOMAIN T.child_to_parent
    THEN [kind |-> "already_has_parent", tree |-> T]
    ELSE IF parent_id \notin DOMAIN T.lookup
    THEN [kind |-> "does_not_exist", tree |-> T]
    ELSE LET parent_ref == T.lookup[parent_id] IN
         [kind |-> "Ok",
          tree |-> [T EXCEPT
              !.child_to_parent = MapInsert(@, child.id, parent_id),
              !.nodes = [@ EXCEPT ![parent_ref] = Node_add_child(@, child_ref)],
              !.parent_to_child = EntryPush(@, parent_id, child.id)]]

\* the last Arc to `ref` owned by add_node goes out of scope: the node is
\* freed unless lookup or a children vector still holds a reference to it
DropRef(T, ref) ==
    IF \/ \E k \in DOMAIN T.lookup : T.lookup[k] = ref
       \/ \E r \in DOMAIN T.nodes : \E i \in 1..Len(T.nodes[r].children) :
              T.nodes[r].children[i] = ref
    THEN T
    ELSE [T EXCEPT !.nodes = [r \in (DOMAIN @) \ {ref} |-> @[r]]]

\* add_node with `self.next_id = id + 1` moved before the call of add_edge
add_node_eager_id(T, label, parent_id) ==
    LET id == T.next_id
        ref == FreshRef(T)
        T1 == [T EXCEPT !.nodes = (ref :> Node_new(id, label)) @@ @, !.next_id = id + 1]
        edge == IF parent_id = None
                THEN [kind |-> "Ok", tree |-> T1]
                ELSE add_edge(T1, parent_id[1], ref)
    IN  IF edge.kind # "Ok"
        THEN [kind |-> edge.kind, ref |-> 0, tree |-> DropRef(edge.tree, ref)]
        ELSE [kind |-> "Ok", ref |-> ref,
              tree |-> [edge.tree EXCEPT !.lookup = MapInsert(@, id, ref)]]

\* add_node with `self.lookup.insert(id, node.clone())` moved before the
\* call of add_edge
add_node_insert_first(T, label, parent_id) ==
    LET id == T.next_id
        ref == FreshRef(T)
        T1 == [T EXCEPT !.nodes = (ref :> Node_new(id, label)) @@ @,
                        !.lookup = MapInsert(@, id, ref)]
        edge == IF parent_id = None
                THEN [kind |-> "Ok", tree |-> T1]
                ELSE add_edge(T1, parent_id[1], ref)
    IN  IF edge.kind # "Ok"
        THEN [kind |-> edge.kind, ref |-> 0, tree |-> DropRef(edge.tree, ref)]
        ELSE [kind |-> "Ok", ref |-> ref,
              tree |-> [edge.tree EXCEPT !.next_id = id + 1]]

\* add_node that stores the node under the key `id + 1`
add_node_key_off_by_one(T, label, parent_id) ==
    LET id == T.next_id
        ref == FreshRef(T)
        T1 == [T EXCEPT !.nodes = (ref :> Node_new(id, label)) @@ @]
        edge == IF parent_id = None
                THEN [kind |-> "Ok", tree |-> T1]
                ELSE add_edge(T1, parent_id[1], ref)
    IN  IF edge.kind # "Ok"
        THEN [kind |-> edge.kind, ref |-> 0, tree |-> DropRef(edge.tree, ref)]
        ELSE [kind |-> "Ok", ref |-> ref,
              tree |-> [edge.tree EXCEPT
                  !.lookup = MapInsert(@, id + 1, ref),
                  !.next_id = id + 1]]

\* add_node without `self.next_id = id + 1`
add_node_no_increment(T, label, parent_id) ==
    LET id == T.next_id
        ref == FreshRef(T)
        T1 == [T EXCEPT !.nodes = (ref :> Node_new(id, label)) @@ @]
        edge == IF parent_id = None
                THEN [kind |-> "Ok", tree |-> T1]
                ELSE add_edge(T1, parent_id[1], ref)
    IN  IF edge.kind # "Ok"
        THEN [kind |-> edge.kind, ref |-> 0, tree |-> DropRef(edge.tree, ref)]
        ELSE [kind |-> "Ok", ref |-> ref,
              tree |-> [edge.tree EXCEPT !.lookup = MapInsert(@, id, ref)]]

\* Tree::add_node. On Ok, ref is the node handed back to the caller.
add_node(T, label, parent_id) ==
    LET id == T.next_id
        ref == FreshRef(T)
        T1 == [T EXCEPT !.nodes = (ref :> Node_new(id, label)) @@ @]
        edge == IF parent_id = None
                THEN [kind |-> "Ok", tree |-> T1]
                ELSE add_edge(T1, parent_id[1], ref)
    IN  IF edge.kind # "Ok"
        THEN [kind |-> edge.kind, ref |-> 0, tree |-> DropRef(edge.tree, ref)]    \* `?`
        ELSE [kind |-> "Ok", ref |-> ref,
              tree |-> [edge.tree EXCEPT
                  !.lookup = MapInsert(@, id, ref),
                  !.next_id = id + 1]]

\* Tree::len
Tree_len(T) == Cardinality(DOMAIN T.lookup)

\* Tree::get_node: a sequence of at most one reference
get_node(T, index) == IF index \in DOMAIN T.lookup THEN Some(T.lookup[index]) ELSE None

\* all orders in which a HashMap can iterate over the keys in S
Orders(S) ==
    {s \in [1..Cardinality(S) -> S] : \A i, j \in 1..Cardinality(S) : s[i] = s[j] => i = j}

\* From<&Tree> without the filter on child_to_parent
root_ids_unfiltered(T) == DOMAIN T.lookup

\* the ids From<&Tree> keeps: keys of lookup without an entry in child_to_parent
root_ids(T) == {key \in DOMAIN T.lookup : key \notin DOMAIN T.child_to_parent}

\* impl From<&Tree> for Vec<Arc<Mutex<Node>>>: the set of vectors it can
\* produce, one for each iteration order of the HashMap
FromTree(T) ==
    {[i \in 1..Len(order) |-> T.lookup[order[i]]] : order \in Orders(root_ids(T))}

\* the ids met when a node is serialized: derive(Serialize) writes the id of
\* the node and then serializes each child in turn. depth bounds the
\* recursion, which does not end on a cyclic structure.
RECURSIVE Serialize(_, _, _)
Serialize(T, ref, depth) ==
    LET node == T.nodes[ref]
        RECURSIVE Children(_)
        Children(i) ==
            IF i > Len(node.children) THEN <<>>
            ELSE Serialize(T, node.children[i], depth - 1) \o Children(i + 1)
    IN  IF depth = 0 THEN <<>> ELSE <<node.id>> \o Children(1)

\* the ids met when a vector of nodes is serialized
RECURSIVE SerializeVec(_, _)
SerializeVec(T, v) ==
    IF v = <<>> THEN <<>>
    ELSE Serialize(T, Head(v), MaxNodes + 2) \o SerializeVec(T, Tail(v))

(* --------------------------- state machine ----------------------------- *)
SetTree(T) ==
    /\ next_id' = T.next_id
    /\ lookup' = T.lookup
    /\ child_to_parent' = T.child_to_parent
    /\ parent_to_child' = T.parent_to_child
    /\ nodes' = T.nodes

Return(op, parent, kind, val) == [op |-> op, parent |-> parent, kind |-> kind, val |-> val]

\* TreeStore::default, no call made yet
Init ==
    /\ next_id = Tree_default.next_id
    /\ lookup = Tree_default.lookup
    /\ child_to_parent = Tree_default.child_to_parent
    /\ parent_to_child = Tree_default.parent_to_child
    /\ nodes = Tree_default.nodes
    /\ lock_writer = FALSE
    /\ lock_readers = 0
    /\ poisoned = FALSE
    /\ pc = [t \in Threads |-> "idle"]
    /\ ret = Return("none", None, "none", <<>>)
    /\ returned = <<>>
    /\ snapshot = <<>>
    /\ mutex = EmptyMap
    /\ local = [t \in Threads |-> <<>>]
    /\ calls = 0

\* a write lock that only excludes other writers
CanWrite_shared == ~lock_writer

\* RwLock::write can return: no guard of either kind is alive
CanWrite == ~lock_writer /\ lock_readers = 0

\* RwLock::read can return: no write guard is alive
CanRead == ~lock_writer

\* TreeStore::add_node, `self.lock.write()?` on a healthy lock
StoreAddNodeLock(t) ==
    /\ pc[t] = "idle"
    /\ next_id <= MaxNodes
    /\ CanWrite
    /\ ~poisoned
    /\ lock_writer' = TRUE
    /\ pc' = [pc EXCEPT ![t] = "write"]
    /\ UNCHANGED <<treevars, lock_readers, poisoned, ret, returned>>
    /\ UNCHANGED auxvars

\* TreeStore::add_node, `self.lock.write()?` on a poisoned lock: the guard
\* inside the PoisonError is dropped by the conversion into AddNodeError
StoreAddNodePoisoned(t) ==
    /\ pc[t] = "idle"
    /\ CanWrite
    /\ poisoned
    /\ \E parent_id \in ParentArgs :
          ret' = Return("add_node", parent_id, "failed to get lock", <<>>)
    /\ UNCHANGED <<treevars, lockvars, pc, returned>>
    /\ UNCHANGED auxvars

\* TreeStore::add_node, `(*tree).add_node(label, parent_id)` and the drop of
\* the write guard
StoreAddNodeBody(t) ==
    /\ pc[t] = "write"
    /\ \E label \in Labels, parent_id \in ParentArgs :
          LET res == add_node(TreeNow, label, parent_id) IN
          /\ SetTree(res.tree)
          /\ IF res.kind = "Ok"
             THEN /\ ret' = Return("add_node", parent_id, "Ok", <<res.tree.nodes[res.ref].id>>)
                  /\ returned' = Append(returned, <<res.tree.nodes[res.ref].id, parent_id>>)
             ELSE /\ ret' = Return("add_node", parent_id, res.kind, <<>>)
                  /\ UNCHANGED returned
    /\ lock_writer' = FALSE
    /\ pc' = [pc EXCEPT ![t] = "idle"]
    /\ UNCHANGED <<lock_readers, poisoned>>
    /\ UNCHANGED auxvars

\* The places of Tree::add_node where the thread can panic after a first
\* mutation, with the Tree as the panic leaves it:
\*   "L83": `self.lookup[&parent_id].lock().unwrap()` in add_edge, after
\*          child_to_parent.insert; the new node is dropped by the unwinding
\*   "L53": `id + 1` (overflow check), after lookup.insert
PanicPoints == {"L83", "L53"}

add_node_panic(T, label, parent_id, point) ==
    LET id == T.next_id
        ref == FreshRef(T)
        T1 == [T EXCEPT !.nodes = (ref :> Node_new(id, label)) @@ @]
        edge == IF parent_id = None
                THEN [kind |-> "Ok", tree |-> T1]
                ELSE add_edge(T1, parent_id[1], ref)
    IN  IF point = "L83"
        THEN [reached |-> parent_id # None /\ edge.kind = "Ok",
              tree |-> DropRef([T1 EXCEPT !.child_to_parent = edge.tree.child_to_parent], ref)]
        ELSE [reached |-> edge.kind = "Ok",
              tree |-> [edge.tree EXCEPT !.lookup = MapInsert(@, id, ref)]]

\* TreeStore::add_node, a panic inside `(*tree).add_node`: the write guard is
\* dropped while the thread is panicking, which poisons the RwLock
WriterPanic(t) ==
    /\ pc[t] = "write"
    /\ \E label \in Labels, parent_id \in ParentArgs, point \in PanicPoints :
          LET res == add_node_panic(TreeNow, label, parent_id, point) IN
          /\ res.reached
          /\ SetTree(res.tree)
          /\ ret' = Return("add_node", parent_id, "panic", <<>>)
    /\ lock_writer' = FALSE
    /\ poisoned' = TRUE
    /\ pc' = [pc EXCEPT ![t] = "idle"]
    /\ UNCHANGED <<lock_readers, returned>>
    /\ UNCHANGED auxvars

\* TreeStore::get_tree, `self.lock.read()?` on a healthy lock
GetTreeLock(t) ==
    /\ pc[t] = "idle"
    /\ CanRead
    /\ ~poisoned
    /\ lock_readers' = lock_readers + 1
    /\ pc' = [pc EXCEPT ![t] = "read"]
    /\ UNCHANGED <<treevars, lock_writer, poisoned, ret, returned>>
    /\ UNCHANGED auxvars

\* get_tree that recovers the guard from the PoisonError and goes on
GetTreePoisoned_recovers(t) ==
    /\ pc[t] = "idle"
    /\ CanRead
    /\ poisoned
    /\ lock_readers' = lock_readers + 1
    /\ pc' = [pc EXCEPT ![t] = "read"]
    /\ UNCHANGED <<treevars, lock_writer, poisoned, ret, returned>>
    /\ UNCHANGED auxvars

\* TreeStore::get_tree, `self.lock.read()?` on a poisoned lock: the caller
\* receives the PoisonError, which holds the read guard
GetTreePoisoned(t) ==
    /\ pc[t] = "idle"
    /\ CanRead
    /\ poisoned
    /\ lock_readers' = lock_readers + 1
    /\ pc' = [pc EXCEPT ![t] = "read_err"]
    /\ ret' = Return("get_tree", None, "failed to get lock", <<>>)
    /\ UNCHANGED <<treevars, lock_writer, poisoned, returned>>
    /\ UNCHANGED auxvars

\* the caller of get_tree drops the PoisonError and the read guard in it
\* (src/main.rs, the Err arms of get_tree and add_node)
GetTreeErrDrop(t) ==
    /\ pc[t] = "read_err"
    /\ lock_readers' = lock_readers - 1
    /\ pc' = [pc EXCEPT ![t] = "idle"]
    /\ UNCHANGED <<treevars, lock_writer, poisoned, ret, returned>>
    /\ UNCHANGED auxvars

\* TreeStore::get_tree, `Ok(Vec::from(&*tree))` and the drop of the read guard
GetTreeBody(t) ==
    /\ pc[t] = "read"
    /\ \E v \in FromTree(TreeNow) : ret' = Return("get_tree", None, "Ok", v)
    /\ lock_readers' = lock_readers - 1
    /\ pc' = [pc EXCEPT ![t] = "idle"]
    /\ UNCHANGED <<treevars, lock_writer, poisoned, returned>>
    /\ UNCHANGED auxvars

\* TreeStore::len, `self.lock.read().unwrap()` on a healthy lock
LenLock(t) ==
    /\ pc[t] = "idle"
    /\ CanRead
    /\ ~poisoned
    /\ lock_readers' = lock_readers + 1
    /\ pc' = [pc EXCEPT ![t] = "len"]
    /\ UNCHANGED <<treevars, lock_writer, poisoned, ret, returned>>
    /\ UNCHANGED auxvars

\* TreeStore::len, `self.lock.read().unwrap()` on a poisoned lock: unwrap
\* panics, the read guard in the PoisonError is dropped by the unwinding
LenPoisoned(t) ==
    /\ pc[t] = "idle"
    /\ CanRead
    /\ poisoned
    /\ ret' = Return("len", None, "panic", <<>>)
    /\ UNCHANGED <<treevars, lockvars, pc, returned>>
    /\ UNCHANGED auxvars

\* TreeStore::len, `(*tree).len() as i32` and the drop of the read guard
LenBody(t) ==
    /\ pc[t] = "len"
    /\ ret' = Return("len", None, "Ok", <<Tree_len(TreeNow)>>)
    /\ lock_readers' = lock_readers - 1
    /\ pc' = [pc EXCEPT ![t] = "idle"]
    /\ UNCHANGED <<treevars, lock_writer, poisoned, returned>>
    /\ UNCHANGED auxvars

\* TreeStore::get_tree as GetTreeBody, by a caller that keeps the vector it
\* received (the handlers of src/main.rs hold it while they serialize it)
GetTreeKeep(t) ==
    /\ pc[t] = "read"
    /\ \E v \in FromTree(TreeNow) :
          /\ ret' = Return("get_tree", None, "Ok", v)
          /\ snapshot' = v
    /\ lock_readers' = lock_readers - 1
    /\ pc' = [pc EXCEPT ![t] = "idle"]
    /\ UNCHANGED <<treevars, lock_writer, poisoned, returned, mutex, local, calls>>

\* the labels of the unit tests of src/tree.rs: "root" for a node without a
\* parent, "child" for a node with one
TestLabel(parent_id) == IF parent_id = None THEN "root" ELSE "child"

\* Tree::add_node called on a Tree that no store wraps, as the unit tests of
\* src/tree.rs do
TreeAddNode ==
    /\ next_id <= MaxNodes
    /\ \E parent_id \in ParentArgs :
          LET res == add_node(TreeNow, TestLabel(parent_id), parent_id) IN
          /\ SetTree(res.tree)
          /\ IF res.kind = "Ok"
             THEN /\ ret' = Return("add_node", parent_id, "Ok", <<res.tree.nodes[res.ref].id>>)
                  /\ returned' = Append(returned, <<res.tree.nodes[res.ref].id, parent_id>>)
             ELSE /\ ret' = Return("add_node", parent_id, res.kind, <<>>)
                  /\ UNCHANGED returned
    /\ UNCHANGED <<lockvars, pc>>
    /\ UNCHANGED auxvars

\* Tree::add_edge called on the Tree with a node that add_node returned
\* earlier, as the unit tests of src/tree.rs do; val is the child's id
AddEdgeDirect ==
    /\ \E parent_id \in ParentIds, key \in DOMAIN lookup :
          LET res == add_edge(TreeNow, parent_id, lookup[key]) IN
          /\ SetTree(res.tree)
          /\ ret' = Return("add_edge", Some(parent_id), res.kind, <<nodes[lookup[key]].id>>)
    /\ UNCHANGED <<lockvars, pc, returned>>
    /\ UNCHANGED auxvars

Next ==
    \E t \in Threads :
        \/ StoreAddNodeLock(t)
        \/ StoreAddNodePoisoned(t)
        \/ StoreAddNodeBody(t)
        \/ WriterPanic(t)
        \/ GetTreeLock(t)
        \/ GetTreePoisoned(t)
        \/ GetTreeErrDrop(t)
        \/ GetTreeBody(t)
        \/ LenLock(t)
        \/ LenPoisoned(t)
        \/ LenBody(t)

\* the store called from any number of threads
Spec == Init /\ [][Next]_vars

\* a Tree used directly by one thread, with add_edge called on registered
\* nodes as the unit tests do
NextTree == TreeAddNode \/ AddEdgeDirect

SpecTree == Init /\ [][NextTree]_vars

\* the store with writers and with readers that keep what get_tree returned
NextSnap ==
    \E t \in Threads :
        \/ StoreAddNodeLock(t)
        \/ StoreAddNodeBody(t)
        \/ GetTreeLock(t)
        \/ GetTreeKeep(t)

SpecSnap == Init /\ [][NextSnap]_vars

(* ------------- the calls step by step, with the node mutexes ------------ *)
\* Positions of a thread: "w_want" .. "w_commit" inside TreeStore::add_node,
\* "t_want" .. "t_walk" inside the get_tree handler of src/main.rs, which
\* serializes the vector after get_tree has returned. The results of the
\* calls are not recorded here (ret and returned stay as they are).

\* the positions in which a thread holds the write guard
WritePositions == {"w_new", "w_lock_child", "w_check", "w_lock_parent", "w_push", "w_commit"}

MutexLock(m, ref, t) == (ref :> t) @@ m

MutexUnlock(m, refs) == [r \in (DOMAIN m) \ refs |-> m[r]]

\* a thread calls TreeStore::add_node(label, parent_id): without a parent, with
\* the id of a node of the tree, with the id the new node may get, or with 0,
\* which is the id of no node
MCallAddNode(t) ==
    /\ pc[t] = "idle"
    /\ calls < MaxCalls
    /\ calls' = calls + 1
    /\ \E parent_id \in {None} \cup {Some(p) : p \in 0..next_id} :
          local' = [local EXCEPT ![t] = [parent_id |-> parent_id, ref |-> 0]]
    /\ pc' = [pc EXCEPT ![t] = "w_want"]
    /\ UNCHANGED <<treevars, lockvars, ret, returned, snapshot, mutex>>

\* TreeStore::add_node, `self.lock.write()?` returns
MWriteLock(t) ==
    /\ pc[t] = "w_want"
    /\ CanWrite
    /\ lock_writer' = TRUE
    /\ pc' = [pc EXCEPT ![t] = "w_new"]
    /\ UNCHANGED <<treevars, lock_readers, poisoned, ret, returned, auxvars>>

\* Tree::add_node, `let id = self.next_id; let node = as_rc_ref(Node::new(id, label));`
MNewNode(t) ==
    /\ pc[t] = "w_new"
    /\ LET ref == FreshRef(TreeNow) IN
          /\ nodes' = (ref :> Node_new(next_id, TestLabel(local[t].parent_id))) @@ nodes
          /\ local' = [local EXCEPT ![t].ref = ref]
    /\ pc' = [pc EXCEPT ![t] =
                 IF local[t].parent_id = None THEN "w_commit" ELSE "w_lock_child"]
    /\ UNCHANGED <<next_id, lookup, child_to_parent, parent_to_child,
                   lockvars, ret, returned, snapshot, calls, mutex>>

\* Tree::add_edge, `let child = child_ref.lock().unwrap();`
MLockChild(t) ==
    /\ pc[t] = "w_lock_child"
    /\ local[t].ref \notin DOMAIN mutex
    /\ mutex' = MutexLock(mutex, local[t].ref, t)
    /\ pc' = [pc EXCEPT ![t] = "w_check"]
    /\ UNCHANGED <<treevars, lockvars, ret, returned, snapshot, calls, local>>

\* Tree::add_edge, the three checks and `self.child_to_parent.insert`. When a
\* check fails, add_edge and add_node return the error: the guard of the
\* child, the new node and the write guard are dropped.
MEdgeCheck(t) ==
    /\ pc[t] = "w_check"
    /\ LET res == add_edge(TreeNow, local[t].parent_id[1], local[t].ref) IN
          IF res.kind # "Ok"
          THEN /\ nodes' = DropRef(TreeNow, local[t].ref).nodes
               /\ mutex' = MutexUnlock(mutex, {local[t].ref})
               /\ lock_writer' = FALSE
               /\ local' = [local EXCEPT ![t] = <<>>]
               /\ pc' = [pc EXCEPT ![t] = "idle"]
               /\ UNCHANGED child_to_parent
          ELSE /\ child_to_parent' = res.tree.child_to_parent
               /\ pc' = [pc EXCEPT ![t] = "w_lock_parent"]
               /\ UNCHANGED <<nodes, mutex, lock_writer, local>>
    /\ UNCHANGED <<next_id, lookup, parent_to_child, lock_readers, poisoned,
                   ret, returned, snapshot, calls>>

\* Tree::add_edge, `let mut parent = self.lookup[&parent_id].lock().unwrap();`
MLockParent(t) ==
    /\ pc[t] = "w_lock_parent"
    /\ lookup[local[t].parent_id[1]] \notin DOMAIN mutex
    /\ mutex' = MutexLock(mutex, lookup[local[t].parent_id[1]], t)
    /\ pc' = [pc EXCEPT ![t] = "w_push"]
    /\ UNCHANGED <<treevars, lockvars, ret, returned, snapshot, calls, local>>

\* MEdgeFinish with the guard of the parent leaked instead of dropped
MEdgeFinish_keeps_parent_locked(t) ==
    /\ pc[t] = "w_push"
    /\ LET parent_id == local[t].parent_id[1]
           parent_ref == lookup[parent_id]
       IN  /\ nodes' = [nodes EXCEPT ![parent_ref] = Node_add_child(@, local[t].ref)]
           /\ parent_to_child' = EntryPush(parent_to_child, parent_id, nodes[local[t].ref].id)
           /\ mutex' = MutexUnlock(mutex, {local[t].ref})
    /\ pc' = [pc EXCEPT ![t] = "w_commit"]
    /\ UNCHANGED <<next_id, lookup, child_to_parent, lockvars, ret, returned,
                   snapshot, calls, local>>

\* Tree::add_edge, `parent.add_child(..)`, the push to parent_to_child and
\* the return, which drops the guards of the parent and of the child
MEdgeFinish(t) ==
    /\ pc[t] = "w_push"
    /\ LET parent_id == local[t].parent_id[1]
           parent_ref == lookup[parent_id]
       IN  /\ nodes' = [nodes EXCEPT ![parent_ref] = Node_add_child(@, local[t].ref)]
           /\ parent_to_child' = EntryPush(parent_to_child, parent_id, nodes[local[t].ref].id)
           /\ mutex' = MutexUnlock(mutex, {parent_ref, local[t].ref})
    /\ pc' = [pc EXCEPT ![t] = "w_commit"]
    /\ UNCHANGED <<next_id, lookup, child_to_parent, lockvars, ret, returned,
                   snapshot, calls, local>>

\* Tree::add_node, `self.lookup.insert(id, node.clone()); self.next_id = id + 1;`
\* and the return of TreeStore::add_node, which drops the write guard
MCommit(t) ==
    /\ pc[t] = "w_commit"
    /\ lookup' = MapInsert(lookup, next_id, local[t].ref)
    /\ next_id' = next_id + 1
    /\ lock_writer' = FALSE
    /\ local' = [local EXCEPT ![t] = <<>>]
    /\ pc' = [pc EXCEPT ![t] = "idle"]
    /\ UNCHANGED <<child_to_parent, parent_to_child, nodes, lock_readers, poisoned,
                   ret, returned, snapshot, calls, mutex>>

\* a thread enters the get_tree handler and calls TreeStore::get_tree
MCallGetTree(t) ==
    /\ pc[t] = "idle"
    /\ calls < MaxCalls
    /\ calls' = calls + 1
    /\ pc' = [pc EXCEPT ![t] = "t_want"]
    /\ UNCHANGED <<treevars, lockvars, ret, returned, snapshot, mutex, local>>

\* TreeStore::get_tree, `self.lock.read()?` returns
MReadLock(t) ==
    /\ pc[t] = "t_want"
    /\ CanRead
    /\ lock_readers' = lock_readers + 1
    /\ pc' = [pc EXCEPT ![t] = "t_read"]
    /\ UNCHANGED <<treevars, lock_writer, poisoned, ret, returned, auxvars>>

\* TreeStore::get_tree, `Ok(Vec::from(&*tree))` and the drop of the read
\* guard; the handler goes on to serialize the vector. stack is the path of
\* nodes whose guards the serializer holds, each with the index of the child
\* it serializes next.
MGetTree(t) ==
    /\ pc[t] = "t_read"
    /\ \E v \in FromTree(TreeNow) :
          local' = [local EXCEPT ![t] = [vec |-> v, idx |-> 1, stack |-> <<>>]]
    /\ lock_readers' = lock_readers - 1
    /\ pc' = [pc EXCEPT ![t] = "t_walk"]
    /\ UNCHANGED <<treevars, lock_writer, poisoned, ret, returned, snapshot, calls, mutex>>

\* the node the serializer of thread t locks next: the next child of the node
\* on top of the stack, or the next element of the vector; <<>> when there is
\* none
WalkTarget(t) ==
    LET l == local[t] IN
    IF l.stack = <<>>
    THEN IF l.idx <= Len(l.vec) THEN <<l.vec[l.idx]>> ELSE <<>>
    ELSE LET top == l.stack[Len(l.stack)] IN
         IF top.i <= Len(nodes[top.ref].children)
         THEN <<nodes[top.ref].children[top.i]>>
         ELSE <<>>

\* impl Serialize for Mutex<Node>: `self.lock()` of the next node, while the
\* guards of its ancestors are held
MWalkLock(t) ==
    /\ pc[t] = "t_walk"
    /\ WalkTarget(t) # <<>>
    /\ LET ref == WalkTarget(t)[1] IN
          /\ ref \notin DOMAIN mutex
          /\ mutex' = MutexLock(mutex, ref, t)
          /\ local' = [local EXCEPT ![t].stack = Append(@, [ref |-> ref, i |-> 1])]
    /\ UNCHANGED <<treevars, lockvars, pc, ret, returned, snapshot, calls>>

\* the node on top of the stack is serialized with all its children: its
\* guard is dropped and the serializer goes on with the next child of its
\* parent, or with the next element of the vector
MWalkUnlock(t) ==
    /\ pc[t] = "t_walk"
    /\ local[t].stack # <<>>
    /\ WalkTarget(t) = <<>>
    /\ LET l == local[t]
           n == Len(l.stack)
       IN  /\ mutex' = MutexUnlock(mutex, {l.stack[n].ref})
           /\ local' = [local EXCEPT ![t] =
                 IF n = 1
                 THEN [l EXCEPT !.stack = <<>>, !.idx = @ + 1]
                 ELSE [l EXCEPT !.stack = [SubSeq(@, 1, n - 1) EXCEPT ![n - 1].i = @ + 1]]]
    /\ UNCHANGED <<treevars, lockvars, pc, ret, returned, snapshot, calls>>

\* the whole vector is serialized: the handler returns
MWalkDone(t) ==
    /\ pc[t] = "t_walk"
    /\ local[t].stack = <<>>
    /\ WalkTarget(t) = <<>>
    /\ local' = [local EXCEPT ![t] = <<>>]
    /\ pc' = [pc EXCEPT ![t] = "idle"]
    /\ UNCHANGED <<treevars, lockvars, ret, returned, snapshot, calls, mutex>>

\* the steps in which a thread takes a lock
MAcquire(t) ==
    MWriteLock(t) \/ MReadLock(t) \/ MLockChild(t) \/ MLockParent(t) \/ MWalkLock(t)

\* the other steps of a thread inside a call
MProceed(t) ==
    \/ MNewNode(t) \/ MEdgeCheck(t) \/ MEdgeFinish(t) \/ MCommit(t)
    \/ MGetTree(t) \/ MWalkUnlock(t) \/ MWalkDone(t)

NextMutex ==
    \E t \in Threads :
        \/ MCallAddNode(t)
        \/ MCallGetTree(t)
        \/ MAcquire(t)
        \/ MProceed(t)

\* Fair scheduling: a thread that can go on inside a call, or that finds the
\* lock it asks for free from some time on, takes its step at some time.
\* Nothing obliges a thread to start a call.
SpecMutex ==
    /\ Init
    /\ [][NextMutex]_vars
    /\ \A t \in Threads : WF_vars(MProceed(t)) /\ WF_vars(MAcquire(t))

(* ------------------------------ claims --------------------------------- *)
\* the three messages add_edge fails with
ValidationErrors == {"same_node", "already_has_parent", "does_not_exist"}

\* a thread leaves Tree::add_node through a return (not a panic) in this step
AddNodeReturns ==
    /\ \E t \in Threads : pc[t] = "write" /\ pc'[t] = "idle"
    /\ ret'.op = "add_node"
    /\ ret'.kind # "panic"

\* C1: the k-th add_node that returns Ok returns id k, and next_id is one more
\* than the number of calls that returned Ok, whatever number of calls failed
\* in between: a failed call does not advance next_id.
C1_MonotonicIds ==
    /\ \A k \in 1..Len(returned) : returned[k][1] = k
    /\ next_id = Len(returned) + 1

\* two calls succeeded and the last call failed validation
C1_Witness ==
    /\ Len(returned) = 2
    /\ ret.op = "add_node"
    /\ ret.kind \in ValidationErrors

\* C2: a call of add_node that returns a validation error leaves next_id,
\* lookup, child_to_parent, parent_to_child and every node as they were.
C2_AllOrNothing ==
    [][(AddNodeReturns /\ ret'.kind \in ValidationErrors) => UNCHANGED treevars]_vars

\* a call with an unknown parent failed on a forest that has nodes
C2_Witness ==
    /\ ret.op = "add_node"
    /\ ret.kind = "does_not_exist"
    /\ Cardinality(DOMAIN lookup) >= 2

\* a call of Tree::add_edge on a registered node returns in this step
AddEdgeReturns == ret'.op = "add_edge" /\ (ret' # ret \/ treevars' # treevars)

\* a call of Tree::add_node on the bare Tree returns in this step
TreeAddNodeReturns == ret'.op = "add_node" /\ (ret' # ret \/ treevars' # treevars)

\* C3: an entry child_to_parent[c] = p is never removed or changed, and every
\* call of add_edge whose child already has a parent fails, whatever the
\* parent id, and changes nothing.
C3_SingleParent ==
    [][/\ \A c \in DOMAIN child_to_parent :
              c \in DOMAIN child_to_parent' /\ child_to_parent'[c] = child_to_parent[c]
       /\ (AddEdgeReturns /\ ret'.val[1] \in DOMAIN child_to_parent)
              => (ret'.kind \in ValidationErrors /\ UNCHANGED treevars)]_vars

\* add_edge was refused for a child that has a parent, under a parent that
\* exists and is neither the child nor its parent
C3_Witness ==
    /\ ret.op = "add_edge"
    /\ ret.kind = "already_has_parent"
    /\ ret.val[1] \in DOMAIN child_to_parent
    /\ ret.parent[1] \in DOMAIN lookup
    /\ ret.parent[1] # child_to_parent[ret.val[1]]

\* C5: add_node with parent_id equal to the id about to be assigned (next_id)
\* fails with the self-parent error and the number of nodes does not change;
\* add_edge with parent_id equal to the id of the child fails the same way.
C5_NoSelfParent ==
    [][/\ (TreeAddNodeReturns /\ ret'.parent = Some(next_id))
              => (ret'.kind = "same_node" /\ Tree_len(TreeNow') = Tree_len(TreeNow))
       /\ (AddEdgeReturns /\ ret'.parent = Some(ret'.val[1]))
              => (ret'.kind = "same_node" /\ UNCHANGED treevars)]_vars

\* add_node was called with the id it was about to assign, on a forest
\* that has a node
C5_Witness ==
    /\ ret.op = "add_node"
    /\ ret.parent = Some(next_id)
    /\ ret.kind = "same_node"
    /\ lookup # EmptyMap

\* C6: add_node with a parent_id that is neither a key of lookup nor the id
\* about to be assigned fails with the unknown-parent error and the number of
\* nodes does not change; on an empty forest every add_node with a parent
\* fails, and a get_tree on the forest that is still empty returns the empty
\* sequence.
C6_UnknownParent ==
    [][/\ (AddNodeReturns /\ ret'.parent # None
              /\ ret'.parent[1] \notin DOMAIN lookup /\ ret'.parent[1] # next_id)
              => (ret'.kind = "does_not_exist" /\ Tree_len(TreeNow') = Tree_len(TreeNow))
       /\ (AddNodeReturns /\ ret'.parent # None /\ DOMAIN lookup = {})
              => (ret'.kind \in ValidationErrors /\ DOMAIN lookup' = {})
       /\ (ret'.op = "get_tree" /\ ret'.kind = "Ok" /\ DOMAIN lookup = {})
              => ret'.val = <<>>]_vars

\* add_node with a parent that never exists failed on the empty forest,
\* which is still empty
C6_Witness ==
    /\ ret.op = "add_node"
    /\ ret.parent = Some(MaxNodes + 1)
    /\ ret.kind = "does_not_exist"
    /\ DOMAIN lookup = {}

\* how many times x occurs in the sequence s
Count(s, x) == Cardinality({i \in 1..Len(s) : s[i] = x})

\* C4: whatever vector get_tree can return, walking its elements and their
\* children meets every id of lookup exactly once and no other id.
C4_RootPartition ==
    \A v \in FromTree(TreeNow) :
        LET met == SerializeVec(TreeNow, v) IN
        /\ \A key \in DOMAIN lookup : Count(met, key) = 1
        /\ \A i \in 1..Len(met) : met[i] \in DOMAIN lookup

\* a forest with two roots, one of them with a child
C4_Witness ==
    /\ Cardinality(root_ids(TreeNow)) = 2
    /\ Cardinality(DOMAIN child_to_parent) = 1
    /\ Cardinality(DOMAIN lookup) = 3
    /\ ~poisoned

\* the Ok entries of the history that were made without a parent
RootAdds == SelectSeq(returned, LAMBDA e : e[2] = None)

\* C7: a vector returned by get_tree holds exactly the nodes of lookup whose
\* id has no entry in child_to_parent, each once; its length is the number of
\* add_node calls that returned Ok without a parent; it is empty on a store
\* without nodes.
C7_Projection ==
    (ret.op = "get_tree" /\ ret.kind = "Ok") =>
        /\ {ret.val[i] : i \in 1..Len(ret.val)} =
              {lookup[key] : key \in (DOMAIN lookup) \ (DOMAIN child_to_parent)}
        /\ \A i, j \in 1..Len(ret.val) : ret.val[i] = ret.val[j] => i = j
        /\ Len(ret.val) = Len(RootAdds)
        /\ (returned = <<>> => ret.val = <<>>)

\* get_tree returned one root of a forest in which that root has children
C7_Witness ==
    /\ ret.op = "get_tree"
    /\ ret.kind = "Ok"
    /\ Len(ret.val) = 1
    /\ Cardinality(DOMAIN lookup) = 3

\* the ids of the add_node calls that returned Ok with parent p, in call order
InsertedUnder(p) ==
    LET under == SelectSeq(returned, LAMBDA e : e[2] = Some(p))
    IN  [i \in 1..Len(under) |-> under[i][1]]

\* C8: while no call has panicked, the children of every node p are the nodes
\* inserted with parent p, each once, in the order of the calls, which is the
\* ascending order of their ids; parent_to_child[p] lists the same ids in the
\* same order (and has no entry for p when p has no child).
C8_ChildrenOrder ==
    ~poisoned =>
        \A p \in DOMAIN lookup :
            LET children == nodes[lookup[p]].children
                ids == [i \in 1..Len(children) |-> nodes[children[i]].id]
            IN  /\ ids = InsertedUnder(p)
                /\ \A i \in 1..Len(children) : children[i] = lookup[ids[i]]
                /\ \A i, j \in 1..Len(ids) : i < j => ids[i] < ids[j]
                /\ IF p \in DOMAIN parent_to_child
                   THEN parent_to_child[p] = ids
                   ELSE ids = <<>>

\* node 1 has the two children 2 and 3
C8_Witness ==
    /\ 1 \in DOMAIN parent_to_child
    /\ parent_to_child[1] = <<2, 3>>
    /\ ~poisoned

\* the threads inside Tree::add_node, and the threads that hold a read guard
Writers == {t \in Threads : pc[t] = "write"}
Readers == {t \in Threads : pc[t] \in {"read", "read_err", "len"}}

\* C9: at most one thread is inside Tree::add_node at a time, and while one
\* is, no thread holds a read guard for get_tree or len. (That several
\* readers can hold the read lock together is what C9_Witness reaches.)
C9_WriterExclusion ==
    /\ Cardinality(Writers) <= 1
    /\ Writers # {} => Readers = {}
    /\ lock_writer <=> Writers # {}
    /\ lock_readers = Cardinality(Readers)

\* two threads hold the read lock at the same time, one in get_tree and one
\* in len
C9_Witness ==
    /\ \E t \in Threads : pc[t] = "read"
    /\ \E t \in Threads : pc[t] = "len"
    /\ lock_readers = 2

\* the statement of C10 as it was made: once the lock is poisoned it stays
\* poisoned, the forest no longer changes, and every call that completes,
\* len included, fails with the lock error.
C10_Original ==
    [][poisoned =>
          /\ poisoned'
          /\ UNCHANGED treevars
          /\ ret' # ret => ret'.kind = "failed to get lock"]_vars

\* C10: once the lock is poisoned it stays poisoned and the forest no longer
\* changes; every get_tree and add_node that completes fails with the lock
\* error; len does not return an error: it panics in the calling thread.
C10_PoisonPermanent ==
    [][poisoned =>
          /\ poisoned'
          /\ UNCHANGED treevars
          /\ ret' # ret =>
                \/ ret'.op \in {"get_tree", "add_node"} /\ ret'.kind = "failed to get lock"
                \/ ret'.op = "len" /\ ret'.kind = "panic"]_vars

\* len was called on the poisoned lock and panicked
C10_Witness ==
    /\ poisoned
    /\ ret.op = "len"
    /\ ret.kind = "panic"

\* the references a node holds in its children vector
ChildRefs(T, r) == {T.nodes[r].children[i] : i \in 1..Len(T.nodes[r].children)}

\* the nodes reached from the set S of nodes by following children at most n
\* times
RECURSIVE ReachWithin(_, _, _)
ReachWithin(T, S, n) ==
    IF n = 0 THEN S
    ELSE ReachWithin(T, S \cup UNION {ChildRefs(T, r) : r \in S}, n - 1)

\* the nodes reached from r by following children one or more times
Descendants(T, r) == ReachWithin(T, ChildRefs(T, r), Cardinality(DOMAIN T.nodes))

\* C11: whatever sequence of add_node and of add_edge on registered nodes was
\* made, no node is reached from itself by following children.
C11_Acyclic == \A r \in DOMAIN nodes : r \notin Descendants(TreeNow, r)

\* the ids that occur anywhere in the Tree
AllIds ==
    (DOMAIN lookup) \cup (DOMAIN child_to_parent) \cup (DOMAIN parent_to_child)
        \cup {child_to_parent[c] : c \in DOMAIN child_to_parent}
        \cup {nodes[r].id : r \in DOMAIN nodes}
        \cup UNION {{parent_to_child[p][i] : i \in 1..Len(parent_to_child[p])} :
                        p \in DOMAIN parent_to_child}

\* parent_to_child[p], empty when p has no entry
ChildIdsOf(p) == IF p \in DOMAIN parent_to_child THEN parent_to_child[p] ELSE <<>>

\* the ids of the nodes in the children vector of node p, empty when p is not
\* a key of lookup
ChildrenIdsOf(p) ==
    IF p \in DOMAIN lookup
    THEN [i \in 1..Len(nodes[lookup[p]].children) |-> nodes[nodes[lookup[p]].children[i]].id]
    ELSE <<>>

\* C12: while no call has panicked, for all ids c and p: child_to_parent[c] = p
\* exactly when c occurs in parent_to_child[p], and exactly when node c occurs
\* in the children of node p; and it occurs once in each of the two.
C12_IndexConsistency ==
    ~poisoned =>
        \A c \in AllIds, p \in AllIds :
            LET edge == c \in DOMAIN child_to_parent /\ child_to_parent[c] = p IN
            /\ edge <=> Count(ChildIdsOf(p), c) >= 1
            /\ edge <=> Count(ChildrenIdsOf(p), c) >= 1
            /\ edge => Count(ChildIdsOf(p), c) = 1 /\ Count(ChildrenIdsOf(p), c) = 1

\* node 1 has two children and one of them has a child
C12_Witness ==
    /\ ~poisoned
    /\ ChildIdsOf(1) = <<2, 3>>
    /\ Cardinality(DOMAIN child_to_parent) = 2
    /\ ret.op = "add_node" /\ ret.kind = "Ok"

\* C15: while no call has panicked, the keys of lookup are 1 .. next_id - 1,
\* the node under key k has id k, the number of nodes is next_id - 1 and is
\* the number of add_node calls that returned Ok, and that is what len
\* returns.
C15_IdSetAndCount ==
    ~poisoned =>
        /\ DOMAIN lookup = 1..(next_id - 1)
        /\ \A k \in DOMAIN lookup : nodes[lookup[k]].id = k
        /\ Tree_len(TreeNow) = next_id - 1
        /\ Tree_len(TreeNow) = Len(returned)
        /\ (ret.op = "len" /\ ret.kind = "Ok") => ret.val = <<next_id - 1>>

\* len returned 2 after two calls of add_node returned Ok
C15_Witness ==
    /\ ret.op = "len"
    /\ ret.kind = "Ok"
    /\ ret.val = <<2>>
    /\ Len(returned) = 2

\* C17: an edge is only created under a parent id that is a key of lookup at
\* that moment; while no call has panicked, every value of child_to_parent,
\* every key of parent_to_child and every key of child_to_parent is a key of
\* lookup.
C17_ReferentialIntegrity ==
    /\ [](~poisoned =>
            /\ \A c \in DOMAIN child_to_parent :
                   c \in DOMAIN lookup /\ child_to_parent[c] \in DOMAIN lookup
            /\ \A p \in DOMAIN parent_to_child : p \in DOMAIN lookup)
    /\ [][\A c \in (DOMAIN child_to_parent') \ (DOMAIN child_to_parent) :
              child_to_parent'[c] \in DOMAIN lookup]_vars

\* a node was inserted under the last node inserted before it
C17_Witness ==
    /\ ~poisoned
    /\ 3 \in DOMAIN child_to_parent
    /\ child_to_parent[3] = 2
    /\ 2 \in DOMAIN parent_to_child

\* C19: through add_node alone, every edge has child_to_parent[c] < c, and a
\* registered node that has no parent never gets one.
C19_ParentPrecedesChild ==
    /\ [](\A c \in DOMAIN child_to_parent : child_to_parent[c] < c)
    /\ [][\A c \in DOMAIN lookup :
              c \notin DOMAIN child_to_parent => c \notin DOMAIN child_to_parent']_vars

\* a root stayed a root while a node inserted after it got a child
C19_Witness ==
    /\ DOMAIN child_to_parent = {3}
    /\ child_to_parent[3] = 2
    /\ DOMAIN lookup = {1, 2, 3}

\* the sequence s is the sequence u with the one element x appended
Appended(s, u, x) == s = Append(u, x)

\* the positions in which a thread holds a read guard
ReadPositions == {"read", "read_err", "len"}

\* a step of get_tree or of len: a thread takes or gives back a read guard,
\* or the call fails on the spot
ReaderStep ==
    \/ \E t \in Threads :
           pc'[t] # pc[t] /\ (pc[t] \in ReadPositions \/ pc'[t] \in ReadPositions)
    \/ (pc' = pc /\ ret' # ret /\ ret'.op \in {"get_tree", "len"})

\* C16: an add_node that returns Ok adds the one key next_id to lookup; with a
\* parent p it adds the one entry next_id -> p to child_to_parent and appends
\* the new node to the children of node p and its id to parent_to_child[p],
\* without a parent it leaves child_to_parent, parent_to_child and every
\* children vector as they were; every node keeps its id and label, every
\* children vector keeps its elements as a prefix, and no entry of lookup or
\* child_to_parent is removed or changed. get_tree and len change nothing.
C16_Frame ==
    [][/\ (AddNodeReturns /\ ret'.kind = "Ok") =>
              LET id == next_id
                  new == lookup'[id]
              IN  /\ id \notin DOMAIN lookup
                  /\ DOMAIN lookup' = (DOMAIN lookup) \cup {id}
                  /\ \A k \in DOMAIN lookup : lookup'[k] = lookup[k]
                  /\ DOMAIN nodes' = (DOMAIN nodes) \cup {new}
                  /\ new \notin DOMAIN nodes
                  /\ nodes'[new].id = id /\ nodes'[new].children = <<>>
                  /\ \A r \in DOMAIN nodes :
                         /\ nodes'[r].id = nodes[r].id
                         /\ nodes'[r].label = nodes[r].label
                         /\ SubSeq(nodes'[r].children, 1, Len(nodes[r].children))
                                = nodes[r].children
                  /\ \A c \in DOMAIN child_to_parent :
                         c \in DOMAIN child_to_parent'
                             /\ child_to_parent'[c] = child_to_parent[c]
                  /\ IF ret'.parent = None
                     THEN /\ child_to_parent' = child_to_parent
                          /\ parent_to_child' = parent_to_child
                          /\ \A r \in DOMAIN nodes : nodes'[r] = nodes[r]
                     ELSE LET p == ret'.parent[1] IN
                          /\ DOMAIN child_to_parent' = (DOMAIN child_to_parent) \cup {id}
                          /\ child_to_parent'[id] = p
                          /\ Appended(nodes'[lookup[p]].children, nodes[lookup[p]].children, new)
                          /\ \A r \in (DOMAIN nodes) \ {lookup[p]} : nodes'[r] = nodes[r]
                          /\ p \in DOMAIN parent_to_child'
                          /\ Appended(parent_to_child'[p],
                                      IF p \in DOMAIN parent_to_child
                                      THEN parent_to_child[p] ELSE <<>>, id)
                          /\ \A q \in (DOMAIN parent_to_child') \ {p} :
                                 q \in DOMAIN parent_to_child
                                     /\ parent_to_child'[q] = parent_to_child[q]
       /\ ReaderStep => UNCHANGED treevars]_vars

\* a node was added as the second child of node 1
C16_Witness ==
    /\ ret.op = "add_node"
    /\ ret.kind = "Ok"
    /\ ret.parent = Some(1)
    /\ ChildIdsOf(1) = <<2, 3>>

\* C13: the store serializes the writers. Whichever thread is inside
\* add_node, with no parent or with a parent that exists, the call returns Ok
\* with the id next_id, which no earlier call returned, and the number of
\* nodes grows by one: after n such calls from any threads in any order the
\* ids returned are next_id0 .. next_id0 + n - 1 and the size is size0 + n.
C13_WritersLinearized ==
    /\ [](\A i, j \in 1..Len(returned) : returned[i][1] = returned[j][1] => i = j)
    /\ [][(AddNodeReturns /\ (ret'.parent = None \/ ret'.parent[1] \in DOMAIN lookup)) =>
              /\ ret'.kind = "Ok"
              /\ ret'.val = <<next_id>>
              /\ \A i \in 1..Len(returned) : returned[i][1] # next_id
              /\ next_id' = next_id + 1
              /\ returned' = Append(returned, <<next_id, ret'.parent>>)
              /\ Tree_len(TreeNow') = Tree_len(TreeNow) + 1]_vars

\* two calls have returned Ok, the second with id 2, and a further writer is
\* inside add_node
C13_Witness ==
    /\ Len(returned) = 2
    /\ ret.op = "add_node" /\ ret.kind = "Ok" /\ ret.val = <<2>>
    /\ Tree_len(TreeNow) = 2
    /\ Writers # {}

\* C14: the vector a caller holds does not change when nodes are added: a
\* new root is not met when the vector is walked. The nodes in it are the
\* nodes of the Tree: after an add_node that returns Ok with a parent that is
\* met when the vector is walked, the walk meets the new node too, once.
C14_SnapshotsShareNodes ==
    [][(AddNodeReturns /\ ret'.kind = "Ok") =>
          LET before == SerializeVec(TreeNow, snapshot)
              after == SerializeVec(TreeNow', snapshot')
          IN  /\ snapshot' = snapshot
              /\ Count(before, next_id) = 0
              /\ ret'.parent = None => Count(after, next_id) = 0
              /\ (ret'.parent # None /\ Count(before, ret'.parent[1]) >= 1)
                     => Count(after, next_id) = 1
              /\ (ret'.parent # None /\ Count(before, ret'.parent[1]) = 0)
                     => Count(after, next_id) = 0]_vars

\* the vector was received when node 1 was the only node; node 2 was then
\* added under node 1 and a walk of the vector meets it
C14_Witness ==
    /\ Len(snapshot) = 1
    /\ nodes[snapshot[1]].id = 1
    /\ ret = Return("add_node", Some(1), "Ok", <<2>>)
    /\ SerializeVec(TreeNow, snapshot) = <<1, 2>>

(* C18 *)
\* the threads that hold what thread t waits for: the write guard or the read
\* guards of the store when t asks for the write guard, the write guard when
\* t asks for a read guard, the guard of a node when t locks its mutex
WaitsFor(t) ==
    LET holder(ref) == IF ref \in DOMAIN mutex THEN {mutex[ref]} ELSE {} IN
    CASE pc[t] = "w_want" ->
            IF CanWrite THEN {}
            ELSE {u \in Threads : pc[u] \in WritePositions \cup {"t_read"}}
      [] pc[t] = "t_want" ->
            IF CanRead THEN {} ELSE {u \in Threads : pc[u] \in WritePositions}
      [] pc[t] = "w_lock_child" -> holder(local[t].ref)
      [] pc[t] = "w_lock_parent" -> holder(lookup[local[t].parent_id[1]])
      [] pc[t] = "t_walk" ->
            IF WalkTarget(t) = <<>> THEN {} ELSE holder(WalkTarget(t)[1])
      [] OTHER -> {}

\* every thread of D waits for something that a thread of D holds
Deadlocked(D) == D # {} /\ \A t \in D : WaitsFor(t) \cap D # {}

NoDeadlock == \A D \in SUBSET Threads : ~Deadlocked(D)

\* C18: writers that lock the mutex of the new child and then the mutex of
\* the parent under the write guard, and serializers that lock the mutex of a
\* node and then, nested, the mutex of each of its children after get_tree
\* dropped the read guard, never reach a state in which some threads wait for
\* each other, and under fair scheduling every call that was started returns:
\* as at most MaxCalls calls are made, that is to say that from some time on
\* no thread is inside a call.
C18_DeadlockFree ==
    /\ []NoDeadlock
    /\ <>[](\A t \in Threads : pc[t] = "idle")

\* a writer waits for the mutex of the parent, which a serializer holds, while
\* a child of that parent exists already
C18_Witness ==
    \E t \in Threads, u \in Threads :
        /\ pc[t] = "w_lock_parent"
        /\ pc[u] = "t_walk"
        /\ WaitsFor(t) = {u}
        /\ nodes[lookup[local[t].parent_id[1]]].children # <<>>

====
